---- MODULE Spec2Model ----
(***************************************************************************)
(* Model of kirigami's ImageColors (src/src/imagecolors.cpp).              *)
(*                                                                         *)
(* Two state machines share this module:                                   *)
(*   Spec        one run of ImageColors::generatePalette over an image     *)
(*               drawn from a bounded set, stepped phase by phase;         *)
(*   SpecUpdate  the ImageColors object on the GUI thread (update(), the   *)
(*               setters, the grab-ready and finished callbacks) together  *)
(*               with the worker runs it dispatches.                       *)
(*                                                                         *)
(* Ratios are kept exact: colorStat::ratio is count / m_samples.count(),   *)
(* so the model stores the numerator and the denominator is                *)
(* Len(m_samples).  The per-entry contrast colour (lines 306-344) is an    *)
(* HSL round trip that no property below reads; it is not represented.     *)
(***************************************************************************)
EXTENDS Integers, Sequences, FiniteSets, TLC

(* ---------------------------------------------------------------------- *)
(* Bounds of the model                                                     *)
(* ---------------------------------------------------------------------- *)
MaxPixels == 6
MaxHeight == 2
MaxRuns == 2
MaxGrabs == 1

(* ---------------------------------------------------------------------- *)
(* Program constants                                                       *)
(* ---------------------------------------------------------------------- *)
s_minimumSquareDistance == 32000
Iterations == 5

(* The opaque colours an input image may use, and one transparent pixel.  *)
OpaqueColors ==
    { <<120, 80, 0>>, <<250, 50, 0>>, <<240, 120, 0>>, <<160, 170, 0>> }
PixelValues ==
    { [rgb |-> c, a |-> 255] : c \in OpaqueColors }
        \cup { [rgb |-> <<10, 20, 30>>, a |-> 0] }

(* A QImage: null, or width x height pixels stored in scan order          *)
(* (x outer, y inner).                                                     *)
NullImage == [isNull |-> TRUE, width |-> 0, height |-> 0, pixels |-> << >>]
Shapes ==
    { wh \in (0 .. MaxPixels) \X (0 .. MaxHeight) : wh[1] * wh[2] <= MaxPixels }
MakeImage(w, h, p) == [isNull |-> FALSE, width |-> w, height |-> h, pixels |-> p]

(* ---------------------------------------------------------------------- *)
(* Colour helpers                                                          *)
(* ---------------------------------------------------------------------- *)
qRed(c) == c[1]
qGreen(c) == c[2]
qBlue(c) == c[3]

(* qRgb masks every channel with 0xff.                                     *)
qRgb(r, g, b) == << r % 256, g % 256, b % 256 >>

qGray(c) == (qRed(c) * 11 + qGreen(c) * 16 + qBlue(c) * 5) \div 32

(* C++ conversion of a quotient to int: truncation toward zero.            *)
TruncDiv(a, b) == IF a >= 0 THEN a \div b ELSE -((-a) \div b)

Abs(x) == IF x < 0 THEN -x ELSE x
Max3(a, b, c) == IF a >= b /\ a >= c THEN a ELSE IF b >= c THEN b ELSE c
Min3(a, b, c) == IF a <= b /\ a <= c THEN a ELSE IF b <= c THEN b ELSE c

squareDistance(color1, color2) ==
    LET dr == qRed(color1) - qRed(color2)
        dg == qGreen(color1) - qGreen(color2)
        db == qBlue(color1) - qBlue(color2)
    IN  IF dr < 128
        THEN 2 * dr * dr + 4 * dg * dg + 3 * db * db
        ELSE 3 * dr * dr + 4 * dg * dg + 2 * db * db

(* ---------------------------------------------------------------------- *)
(* Clusters (ImageData::colorStat)                                         *)
(* ---------------------------------------------------------------------- *)
DefaultRatio == 0

NewStat(rgb) == [centroid |-> rgb, colors |-> << rgb >>, ratio |-> DefaultRatio]

(* Index of the first cluster within the threshold of rgb, 0 if none.      *)
RECURSIVE FirstFit(_, _, _)
FirstFit(rgb, clusters, i) ==
    IF i > Len(clusters) THEN 0
    ELSE IF squareDistance(rgb, clusters[i].centroid) < s_minimumSquareDistance
         THEN i
         ELSE FirstFit(rgb, clusters, i + 1)

(* positionColor without the return of line 199: the colour is appended   *)
(* to the first cluster in reach and a new cluster is created as well.     *)
positionColor_NoReturn(rgb, clusters) ==
    LET i == FirstFit(rgb, clusters, 1)
    IN  IF i # 0
        THEN Append([clusters EXCEPT ![i].colors = Append(@, rgb)], NewStat(rgb))
        ELSE Append(clusters, NewStat(rgb))

positionColor(rgb, clusters) ==
    LET i == FirstFit(rgb, clusters, 1)
    IN  IF i # 0
        THEN [clusters EXCEPT ![i].colors = Append(@, rgb)]
        ELSE Append(clusters, NewStat(rgb))

RECURSIVE PositionAll(_, _)
PositionAll(colors, clusters) ==
    IF colors = << >> THEN clusters
    ELSE PositionAll(Tail(colors), positionColor(Head(colors), clusters))

(* The sampling loop without the alpha test of lines 224-226.             *)
IsEligible_IgnoreAlpha(pixel) == pixel.a \in 0 .. 255

IsEligible(pixel) == pixel.a # 0

(* The pixels of the image in the order of the two sampling loops.         *)
pixelColor(image, x, y) == image.pixels[x * image.height + y + 1]

RECURSIVE ScanSamples(_, _)
ScanSamples(image, k) ==
    IF k >= image.width * image.height THEN << >>
    ELSE LET px == pixelColor(image, k \div image.height, k % image.height)
         IN  IF IsEligible(px)
             THEN << px.rgb >> \o ScanSamples(image, k + 1)
             ELSE ScanSamples(image, k + 1)

RECURSIVE SumChannel(_, _)
SumChannel(colors, ch) ==
    IF colors = << >> THEN 0
    ELSE Head(colors)[ch] + SumChannel(Tail(colors), ch)

(* Lines 238-254: the mean of the members becomes the centroid, the ratio  *)
(* is taken from the member count, and the members are reset to the        *)
(* centroid alone.                                                         *)
Recenter(stat) ==
    LET c == Len(stat.colors)
        cen == qRgb(SumChannel(stat.colors, 1) \div c,
                    SumChannel(stat.colors, 2) \div c,
                    SumChannel(stat.colors, 3) \div c)
    IN  [centroid |-> cen, ratio |-> Len(stat.colors), colors |-> << cen >>]

RecenterAll(clusters) == [i \in 1 .. Len(clusters) |-> Recenter(clusters[i])]

(* std::sort on colors.size(), descending: any order of the clusters in    *)
(* which the sizes do not increase.                                        *)
Perms(n) == { p \in [1 .. n -> 1 .. n] : \A i, j \in 1 .. n : i # j => p[i] # p[j] }

SortedOrders(clusters) ==
    { p \in Perms(Len(clusters)) :
        \A i \in 1 .. Len(clusters) - 1 :
            Len(clusters[p[i]].colors) >= Len(clusters[p[i + 1]].colors) }

(* Inner loop of the merge pass: the first destIt before sourceIt whose    *)
(* centroid is within the threshold of the source's, 0 if none.            *)
(* The inner loop without the destIt != sourceIt bound of line 271.        *)
RECURSIVE FindDest_NoSelfStop(_, _, _)
FindDest_NoSelfStop(clusters, sourceIt, destIt) ==
    IF destIt > Len(clusters) THEN 0
    ELSE IF squareDistance(clusters[sourceIt].centroid, clusters[destIt].centroid)
                < s_minimumSquareDistance
         THEN destIt
         ELSE FindDest_NoSelfStop(clusters, sourceIt, destIt + 1)

RECURSIVE FindDest(_, _, _)
FindDest(clusters, sourceIt, destIt) ==
    IF destIt > Len(clusters) \/ destIt = sourceIt THEN 0
    ELSE IF squareDistance(clusters[sourceIt].centroid, clusters[destIt].centroid)
                < s_minimumSquareDistance
         THEN destIt
         ELSE FindDest(clusters, sourceIt, destIt + 1)

(* ratio * source + (1 - ratio) * dest with ratio = sn / dn, as an exact   *)
(* numerator over dn.                                                      *)
MixNumerator(sn, dn, s, d) == sn * s + (dn - sn) * d

(* The conversion of the mixed channel to int.  The doubles carry rounding *)
(* error, so a value that is an exact integer q may be computed just short *)
(* of it and truncate to the neighbour nearer zero: rnd = 1 picks that     *)
(* outcome.  With a zero destination ratio the value is NaN, its           *)
(* conversion is undefined, and rnd picks the byte left in the channel.    *)
Roundings == { 0, 1 }

MixChannel(sn, dn, s, d, rnd) ==
    IF dn = 0 THEN (IF rnd = 0 THEN 0 ELSE 255)
    ELSE LET num == MixNumerator(sn, dn, s, d)
             q == TruncDiv(num, dn)
         IN  IF num % dn = 0 /\ rnd = 1 /\ q # 0
             THEN (IF q > 0 THEN q - 1 ELSE q + 1)
             ELSE q

MergeInto(src, dest, rnd) ==
    [dest EXCEPT
        !.ratio = dest.ratio + src.ratio,
        !.centroid = qRgb(
            MixChannel(src.ratio, dest.ratio, qRed(src.centroid), qRed(dest.centroid), rnd[1]),
            MixChannel(src.ratio, dest.ratio, qGreen(src.centroid), qGreen(dest.centroid), rnd[2]),
            MixChannel(src.ratio, dest.ratio, qBlue(src.centroid), qBlue(dest.centroid), rnd[3]))]

MergeOutcomes(src, dest) ==
    { MergeInto(src, dest, rnd) : rnd \in [1 .. 3 -> Roundings] }

(* QList::erase(iterator): the element at that position goes and the       *)
(* later ones move down.                                                   *)
EraseAt(clusters, pos) ==
    [i \in 1 .. Len(clusters) - 1 |-> IF i < pos THEN clusters[i] ELSE clusters[i + 1]]

RECURSIVE EraseAll(_, _)
EraseAll(clusters, items) ==
    IF items = << >> THEN clusters
    ELSE EraseAll(EraseAt(clusters, Head(items)), Tail(items))

(* QColor::saturation() and value() of an RGB colour (HSV, 16-bit store,   *)
(* high byte returned); an invalid QColor reads 0 for both.                *)
InvalidColor == << -1, -1, -1 >>
White == << 255, 255, 255 >>
Black == << 0, 0, 0 >>

hsvValue(c) == IF c = InvalidColor THEN 0 ELSE Max3(c[1], c[2], c[3])

hsvSaturation(c) ==
    IF c = InvalidColor THEN 0
    ELSE LET mx == Max3(c[1], c[2], c[3])
             delta == mx - Min3(c[1], c[2], c[3])
         IN  IF delta = 0 THEN 0
             ELSE ((2 * delta * 65535 + mx) \div (2 * mx)) \div 256

SaturationScore(c) == hsvSaturation(c) + (158 - Abs(158 - hsvValue(c)))

RECURSIVE MostSaturated(_, _, _)
MostSaturated(clusters, i, best) ==
    IF i > Len(clusters) THEN best
    ELSE MostSaturated(clusters, i + 1,
            IF SaturationScore(clusters[i].centroid) > SaturationScore(best)
            THEN clusters[i].centroid ELSE best)

RECURSIVE ClosestToWhite(_, _, _)
ClosestToWhite(clusters, i, best) ==
    IF i > Len(clusters) THEN best
    ELSE ClosestToWhite(clusters, i + 1,
            IF qGray(clusters[i].centroid) > qGray(best)
            THEN clusters[i].centroid ELSE best)

RECURSIVE ClosestToBlack(_, _, _)
ClosestToBlack(clusters, i, best) ==
    IF i > Len(clusters) THEN best
    ELSE ClosestToBlack(clusters, i + 1,
            IF qGray(clusters[i].centroid) < qGray(best)
            THEN clusters[i].centroid ELSE best)

PaletteOf(clusters) ==
    [i \in 1 .. Len(clusters) |->
        [color |-> clusters[i].centroid, ratio |-> clusters[i].ratio]]

(* ---------------------------------------------------------------------- *)
(* State                                                                   *)
(* ---------------------------------------------------------------------- *)
VARIABLES
    (* generatePalette *)
    pc,              \* position in generatePalette
    sourceImage,     \* the argument
    m_samples,       \* imageData.m_samples
    m_clusters,      \* imageData.m_clusters
    iteration,       \* refinement loop counter
    reseeded,        \* clusters recentred by the latest refinement pass
    sourceIt,        \* merge pass iterator (position; Len + 1 is end())
    itemsToDelete,   \* positions recorded by the merge pass
    lastMerge,       \* the merge done by the latest merge step, if any
    m_palette,
    m_dominant,
    m_mostSaturated,
    m_closestToBlack,
    m_closestToWhite,
    (* ImageColors object and its runs *)
    m_sourceImage,      \* image id, 0 is a null QImage
    m_sourceItem,       \* item id, 0 is nullptr
    m_window,           \* TRUE when m_window is non-null
    m_grabResult,       \* grab id, 0 is a null pointer
    m_futureImageData,  \* watcher id, 0 is nullptr
    m_imageData,        \* the published result
    watchers,           \* every QFutureWatcher created, with its run
    grabs,              \* every grab requested
    eventQueue,         \* events posted to the GUI thread, in order
    mainPc,             \* what the GUI thread is doing
    itemWindow,         \* TRUE when m_sourceItem->window() is non-null
    itemConnected,      \* windowChanged is connected to syncWindow
    windowConnected,    \* visibleChanged is connected to update
    handlerSaw,         \* what the latest finished handler found in m_futureImageData
    publishedCanceled   \* the latest assignment to m_imageData took a cancelled run's result

paletteVars ==
    << pc, sourceImage, m_samples, m_clusters, iteration, reseeded, sourceIt,
       itemsToDelete, lastMerge, m_palette, m_dominant, m_mostSaturated,
       m_closestToBlack, m_closestToWhite >>

updateVars ==
    << m_sourceImage, m_sourceItem, m_window, m_grabResult, m_futureImageData,
       m_imageData, watchers, grabs, eventQueue, mainPc, itemWindow,
       itemConnected, windowConnected, handlerSaw, publishedCanceled >>

vars == << paletteVars, updateVars >>

NoMerge == [merged |-> FALSE]

(* A default-constructed ImageData.                                        *)
PaletteInit ==
    /\ pc = "start"
    /\ m_samples = << >>
    /\ m_clusters = << >>
    /\ iteration = 0
    /\ reseeded = 0
    /\ sourceIt = 0
    /\ itemsToDelete = << >>
    /\ lastMerge = NoMerge
    /\ m_palette = << >>
    /\ m_dominant = InvalidColor
    /\ m_mostSaturated = InvalidColor
    /\ m_closestToBlack = InvalidColor
    /\ m_closestToWhite = InvalidColor

(* ---------------------------------------------------------------------- *)
(* The ImageColors object                                                  *)
(* ---------------------------------------------------------------------- *)
ImageIds == { 1, 2 }
ItemIds == { 1 }

NoWatcher ==
    [phase |-> "none", canceled |-> FALSE, scheduled |-> FALSE, deleted |-> FALSE,
     dispatchImage |-> 0, reads |-> << >>]

NoImageData == [run |-> 0, reads |-> << >>]

(* The state after the constructor (lines 29-38).                          *)
UpdateInit ==
    /\ m_sourceImage = 0
    /\ m_sourceItem = 0
    /\ m_window = FALSE
    /\ m_grabResult = 0
    /\ m_futureImageData = 0
    /\ m_imageData = NoImageData
    /\ watchers = [w \in 1 .. MaxRuns |-> NoWatcher]
    /\ grabs = [g \in 1 .. MaxGrabs |-> "none"]
    /\ eventQueue = << >>
    /\ mainPc = "idle"
    /\ itemWindow = FALSE
    /\ itemConnected = FALSE
    /\ windowConnected = FALSE
    /\ handlerSaw = "none"
    /\ publishedCanceled = FALSE

Init ==
    /\ \/ sourceImage = NullImage
       \/ \E wh \in Shapes :
             \E p \in [1 .. wh[1] * wh[2] -> PixelValues] :
                sourceImage = MakeImage(wh[1], wh[2], p)
    /\ PaletteInit
    /\ UpdateInit

(* Lines 213-215.                                                          *)
RejectImage ==
    /\ pc = "start"
    /\ sourceImage.isNull \/ sourceImage.width = 0
    /\ pc' = "done"
    /\ UNCHANGED << sourceImage, m_samples, m_clusters, iteration, reseeded,
                    sourceIt, itemsToDelete, lastMerge, m_palette, m_dominant,
                    m_mostSaturated, m_closestToBlack, m_closestToWhite >>
    /\ UNCHANGED updateVars

(* Lines 217-230.                                                          *)
Sample ==
    /\ pc = "start"
    /\ ~(sourceImage.isNull \/ sourceImage.width = 0)
    /\ m_samples' = ScanSamples(sourceImage, 0)
    /\ m_clusters' = PositionAll(m_samples', << >>)
    /\ pc' = "sampled"
    /\ UNCHANGED << sourceImage, iteration, reseeded, sourceIt, itemsToDelete,
                    lastMerge, m_palette, m_dominant, m_mostSaturated,
                    m_closestToBlack, m_closestToWhite >>
    /\ UNCHANGED updateVars

(* Lines 232-234.                                                          *)
NoSamples ==
    /\ pc = "sampled"
    /\ m_samples = << >>
    /\ pc' = "done"
    /\ UNCHANGED << sourceImage, m_samples, m_clusters, iteration, reseeded,
                    sourceIt, itemsToDelete, lastMerge, m_palette, m_dominant,
                    m_mostSaturated, m_closestToBlack, m_closestToWhite >>
    /\ UNCHANGED updateVars

(* Lines 236-260, one iteration.                                           *)
Refine ==
    /\ pc \in { "sampled", "refine" }
    /\ m_samples # << >>
    /\ iteration < Iterations
    /\ m_clusters' = PositionAll(m_samples, RecenterAll(m_clusters))
    /\ reseeded' = Len(m_clusters)
    /\ iteration' = iteration + 1
    /\ pc' = "refine"
    /\ UNCHANGED << sourceImage, m_samples, sourceIt, itemsToDelete, lastMerge,
                    m_palette, m_dominant, m_mostSaturated, m_closestToBlack,
                    m_closestToWhite >>
    /\ UNCHANGED updateVars

(* Lines 262-268.                                                          *)
Sort ==
    /\ pc = "refine"
    /\ iteration = Iterations
    /\ \E p \in SortedOrders(m_clusters) :
          m_clusters' = [i \in 1 .. Len(m_clusters) |-> m_clusters[p[i]]]
    /\ sourceIt' = Len(m_clusters) + 1
    /\ itemsToDelete' = << >>
    /\ pc' = "merge"
    /\ UNCHANGED << sourceImage, m_samples, iteration, reseeded, lastMerge,
                    m_palette, m_dominant, m_mostSaturated, m_closestToBlack,
                    m_closestToWhite >>
    /\ UNCHANGED updateVars

(* Lines 269-286, one turn of the while loop.                              *)
MergeStep ==
    /\ pc = "merge"
    /\ sourceIt # 1
    /\ sourceIt' = sourceIt - 1
    /\ LET destIt == FindDest(m_clusters, sourceIt', 1)
       IN  IF destIt = 0
           THEN /\ lastMerge' = NoMerge
                /\ UNCHANGED << m_clusters, itemsToDelete >>
           ELSE \E merged \in MergeOutcomes(m_clusters[sourceIt'], m_clusters[destIt]) :
                /\ m_clusters' = [m_clusters EXCEPT ![destIt] = merged]
                /\ itemsToDelete' = Append(itemsToDelete, sourceIt')
                /\ lastMerge' =
                     [merged |-> TRUE,
                      source |-> sourceIt',
                      dest |-> destIt,
                      sourceRatio |-> m_clusters[sourceIt'].ratio,
                      destRatio |-> m_clusters[destIt].ratio,
                      sourceCentroid |-> m_clusters[sourceIt'].centroid,
                      destCentroid |-> m_clusters[destIt].centroid,
                      newCentroid |-> m_clusters'[destIt].centroid]
    /\ UNCHANGED << pc, sourceImage, m_samples, iteration, reseeded, m_palette,
                    m_dominant, m_mostSaturated, m_closestToBlack, m_closestToWhite >>
    /\ UNCHANGED updateVars

(* Lines 287-289.                                                          *)
Erase ==
    /\ pc = "merge"
    /\ sourceIt = 1
    /\ m_clusters' = EraseAll(m_clusters, itemsToDelete)
    /\ pc' = "derive"
    /\ UNCHANGED << sourceImage, m_samples, iteration, reseeded, sourceIt,
                    itemsToDelete, lastMerge, m_palette, m_dominant,
                    m_mostSaturated, m_closestToBlack, m_closestToWhite >>
    /\ UNCHANGED updateVars

(* Lines 291-361.  first() on an empty list is undefined: the model stops  *)
(* short of "done" and leaves the result untouched.                        *)
Derive ==
    /\ pc = "derive"
    /\ IF m_clusters = << >>
       THEN /\ pc' = "crashed"
            /\ UNCHANGED << m_palette, m_dominant, m_mostSaturated,
                            m_closestToBlack, m_closestToWhite >>
       ELSE /\ pc' = "done"
            /\ m_dominant' = m_clusters[1].centroid
            /\ m_mostSaturated' = MostSaturated(m_clusters, 1, InvalidColor)
            /\ m_closestToBlack' = ClosestToBlack(m_clusters, 1, White)
            /\ m_closestToWhite' = ClosestToWhite(m_clusters, 1, Black)
            /\ m_palette' = PaletteOf(m_clusters)
    /\ UNCHANGED << sourceImage, m_samples, m_clusters, iteration, reseeded,
                    sourceIt, itemsToDelete, lastMerge >>
    /\ UNCHANGED updateVars

Next ==
    \/ RejectImage
    \/ Sample
    \/ NoSamples
    \/ Refine
    \/ Sort
    \/ MergeStep
    \/ Erase
    \/ Derive

Spec == Init /\ [][Next]_vars

(* ---------------------------------------------------------------------- *)
(* update() and the callbacks, on the fields of the object gathered in a   *)
(* record                                                                  *)
(* ---------------------------------------------------------------------- *)
Obj ==
    [m_sourceImage |-> m_sourceImage, m_sourceItem |-> m_sourceItem,
     m_window |-> m_window, m_grabResult |-> m_grabResult,
     m_futureImageData |-> m_futureImageData, watchers |-> watchers,
     grabs |-> grabs, eventQueue |-> eventQueue, mainPc |-> mainPc,
     itemConnected |-> itemConnected, windowConnected |-> windowConnected]

Store(o) ==
    /\ m_sourceImage' = o.m_sourceImage
    /\ m_sourceItem' = o.m_sourceItem
    /\ m_window' = o.m_window
    /\ m_grabResult' = o.m_grabResult
    /\ m_futureImageData' = o.m_futureImageData
    /\ watchers' = o.watchers
    /\ grabs' = o.grabs
    /\ eventQueue' = o.eventQueue
    /\ mainPc' = o.mainPc
    /\ itemConnected' = o.itemConnected
    /\ windowConnected' = o.windowConnected

RunsDispatched(o) == Cardinality({ w \in 1 .. MaxRuns : o.watchers[w].phase # "none" })
GrabsRequested(o) == Cardinality({ g \in 1 .. MaxGrabs : o.grabs[g] # "none" })

(* QObject::deleteLater: one DeferredDelete event per object.              *)
deleteLater(o, w) ==
    IF o.watchers[w].scheduled THEN o
    ELSE [o EXCEPT !.watchers[w].scheduled = TRUE,
                   !.eventQueue = Append(@, << "delete", w >>)]

(* Lines 135-138.  m_futureImageData is not reset here, so it may name a   *)
(* watcher the event loop has already deleted; the calls on it are then    *)
(* undefined and ub is what the build does: stop, or carry on unharmed.    *)
CancelPrevious(o, ub) ==
    LET w == o.m_futureImageData
    IN  IF w = 0 THEN o
        ELSE IF o.watchers[w].deleted
             THEN (IF ub = "crash" THEN [o EXCEPT !.mainPc = "crashed"] ELSE o)
             ELSE deleteLater([o EXCEPT !.watchers[w].canceled = TRUE], w)

(* Lines 139-155: QtConcurrent::run queues the run, a new watcher watches  *)
(* it and becomes m_futureImageData.                                       *)
runUpdate(o) ==
    LET w == RunsDispatched(o) + 1
    IN  [o EXCEPT
            !.watchers[w] = [phase |-> "queued", canceled |-> FALSE,
                             scheduled |-> FALSE, deleted |-> FALSE,
                             dispatchImage |-> o.m_sourceImage, reads |-> << >>],
            !.m_futureImageData = w]

(* Lines 164-177: drop the previous grab and ask for a new one; grabOk is  *)
(* whether grabToImage returned a result.                                  *)
requestGrab(o, grabOk) ==
    LET g == GrabsRequested(o) + 1
    IN  IF grabOk
        THEN [o EXCEPT !.m_grabResult = g, !.grabs[g] = "pending"]
        ELSE [o EXCEPT !.m_grabResult = 0]

(* Lines 133-178.                                                          *)
update(o, grabOk, ub) ==
    LET o1 == CancelPrevious(o, ub)
    IN  IF o1.mainPc = "crashed" THEN o1
        ELSE IF o1.m_sourceItem = 0 \/ ~o1.m_window
             THEN (IF o1.m_sourceImage # 0 THEN runUpdate(o1) ELSE o1)
             ELSE requestGrab(o1, grabOk)

(* Whether the model still has a watcher to hand out, and the answers     *)
(* grabToImage may give: past the last grab of the model it returns null.  *)
HasRoom == RunsDispatched(Obj) < MaxRuns

GrabAnswers == IF GrabsRequested(Obj) < MaxGrabs THEN BOOLEAN ELSE { FALSE }

UBOutcomes == { "crash", "benign" }

(* Lines 66-88.                                                            *)
setSourceImage(image) ==
    /\ mainPc = "idle"
    /\ HasRoom
    /\ \E grabOk \in GrabAnswers, ub \in UBOutcomes :
          Store(update([Obj EXCEPT !.windowConnected = FALSE,
                                   !.itemConnected = FALSE,
                                   !.m_grabResult = 0,
                                   !.m_sourceItem = 0,
                                   !.m_sourceImage = image], grabOk, ub))
    /\ UNCHANGED << m_imageData, itemWindow, handlerSaw, publishedCanceled >>
    /\ UNCHANGED paletteVars

(* Lines 95-126.  update() runs before syncWindow refreshes m_window.      *)
setSourceItem(source) ==
    /\ mainPc = "idle"
    /\ HasRoom
    /\ m_sourceItem # source
    /\ \E grabOk \in GrabAnswers, ub \in UBOutcomes :
          LET o == update([Obj EXCEPT !.windowConnected = FALSE,
                                      !.itemConnected = FALSE,
                                      !.m_sourceItem = source], grabOk, ub)
          IN  Store(IF source # 0
                    THEN [o EXCEPT !.m_window = itemWindow,
                                   !.windowConnected = itemWindow,
                                   !.itemConnected = TRUE]
                    ELSE o)
    /\ UNCHANGED << m_imageData, itemWindow, handlerSaw, publishedCanceled >>
    /\ UNCHANGED paletteVars

(* Lines 111-120: the item moves to or from a window; syncWindow runs if   *)
(* it is still connected.                                                  *)
windowChanged ==
    /\ mainPc = "idle"
    /\ itemWindow' = ~itemWindow
    /\ IF itemConnected
       THEN /\ m_window' = itemWindow'
            /\ windowConnected' = itemWindow'
       ELSE UNCHANGED << m_window, windowConnected >>
    /\ UNCHANGED << m_sourceImage, m_sourceItem, m_grabResult, m_futureImageData,
                    m_imageData, watchers, grabs, eventQueue, mainPc,
                    itemConnected, handlerSaw, publishedCanceled >>
    /\ UNCHANGED paletteVars

(* Lines 117-118: QWindow::visibleChanged calls update().                  *)
visibleChanged ==
    /\ mainPc = "idle"
    /\ HasRoom
    /\ windowConnected
    /\ \E grabOk \in GrabAnswers, ub \in UBOutcomes :
          Store(update(Obj, grabOk, ub))
    /\ UNCHANGED << m_imageData, itemWindow, handlerSaw, publishedCanceled >>
    /\ UNCHANGED paletteVars

(* The render thread finishes a grab and posts its ready signal.           *)
grabCompleted(g) ==
    /\ grabs[g] = "pending"
    /\ grabs' = [grabs EXCEPT ![g] = "posted"]
    /\ eventQueue' = Append(eventQueue, << "ready", g >>)
    /\ UNCHANGED << m_sourceImage, m_sourceItem, m_window, m_grabResult,
                    m_futureImageData, m_imageData, watchers, mainPc, itemWindow,
                    itemConnected, windowConnected, handlerSaw, publishedCanceled >>
    /\ UNCHANGED paletteVars

(* Lines 172-176: the ready callback, if the grab is still the connected   *)
(* one; image is what the grab holds.                                      *)
grabReady(image) ==
    /\ mainPc = "idle"
    /\ eventQueue # << >>
    /\ Head(eventQueue)[1] = "ready"
    /\ IF m_grabResult = Head(eventQueue)[2]
       THEN /\ RunsDispatched(Obj) < MaxRuns
            /\ Store(runUpdate([Obj EXCEPT !.eventQueue = Tail(@),
                                           !.m_sourceImage = image,
                                           !.m_grabResult = 0]))
       ELSE /\ image = 0
            /\ Store([Obj EXCEPT !.eventQueue = Tail(@)])
    /\ UNCHANGED << m_imageData, itemWindow, handlerSaw, publishedCanceled >>
    /\ UNCHANGED paletteVars

(* The event loop deletes a watcher scheduled with deleteLater.            *)
deferredDelete ==
    /\ mainPc = "idle"
    /\ eventQueue # << >>
    /\ Head(eventQueue)[1] = "delete"
    /\ watchers' = [watchers EXCEPT ![Head(eventQueue)[2]].deleted = TRUE]
    /\ eventQueue' = Tail(eventQueue)
    /\ UNCHANGED << m_sourceImage, m_sourceItem, m_window, m_grabResult,
                    m_futureImageData, m_imageData, grabs, mainPc, itemWindow,
                    itemConnected, windowConnected, handlerSaw, publishedCanceled >>
    /\ UNCHANGED paletteVars

HasResult(w) == watchers[w].phase \in { "resultReady", "finished" }

(* What the finished handler finds in m_futureImageData at line 144.       *)
HandlerSees ==
    IF m_futureImageData = 0 THEN "null"
    ELSE IF watchers[m_futureImageData].deleted THEN "deleted"
    ELSE IF watchers[m_futureImageData].phase = "skipped" THEN "noResult"
    ELSE IF watchers[m_futureImageData].scheduled THEN "scheduled"
    ELSE "current"

(* Lines 144-146: result() has returned; the result is published, the      *)
(* watcher scheduled for deletion and the pointer reset.                   *)
Publish ==
    LET w == m_futureImageData
    IN  /\ m_imageData' = [run |-> w, reads |-> watchers[w].reads]
        /\ publishedCanceled' = watchers[w].canceled
        /\ m_futureImageData' = 0
        /\ watchers' = deleteLater(Obj, w).watchers

(* A finished signal reaches the handler of lines 143-153.  The handler    *)
(* reads m_futureImageData, whichever watcher sent the signal; on a null   *)
(* pointer, a deleted watcher or a future without a result the read is     *)
(* undefined and the thread stops.  result() blocks until the run          *)
(* m_futureImageData watches has reported its result.                      *)
finished ==
    /\ mainPc = "idle"
    /\ eventQueue # << >>
    /\ Head(eventQueue)[1] = "finished"
    /\ IF watchers[Head(eventQueue)[2]].deleted
       THEN /\ eventQueue' = Tail(eventQueue)
            /\ UNCHANGED << m_imageData, publishedCanceled, m_futureImageData,
                            watchers, mainPc, handlerSaw >>
       ELSE /\ handlerSaw' = HandlerSees
            /\ IF HandlerSees \in { "null", "deleted", "noResult" }
               THEN /\ mainPc' = "crashed"
                    /\ eventQueue' = Tail(eventQueue)
                    /\ UNCHANGED << m_imageData, publishedCanceled,
                                    m_futureImageData, watchers >>
               ELSE IF HasResult(m_futureImageData)
               THEN /\ Publish
                    /\ eventQueue' = deleteLater([Obj EXCEPT !.eventQueue = Tail(@)],
                                                 m_futureImageData).eventQueue
                    /\ UNCHANGED mainPc
               ELSE /\ mainPc' = "blocked"
                    /\ eventQueue' = Tail(eventQueue)
                    /\ UNCHANGED << m_imageData, publishedCanceled,
                                    m_futureImageData, watchers >>
    /\ UNCHANGED << m_sourceImage, m_sourceItem, m_window, m_grabResult, grabs,
                    itemWindow, itemConnected, windowConnected >>
    /\ UNCHANGED paletteVars

(* result() returns to a handler that was waiting in it.                   *)
resultReturned ==
    /\ mainPc = "blocked"
    /\ IF watchers[m_futureImageData].phase = "skipped"
       THEN /\ mainPc' = "crashed"
            /\ handlerSaw' = "noResult"
            /\ UNCHANGED << m_imageData, publishedCanceled, m_futureImageData,
                            watchers, eventQueue >>
       ELSE /\ HasResult(m_futureImageData)
            /\ Publish
            /\ eventQueue' = deleteLater(Obj, m_futureImageData).eventQueue
            /\ mainPc' = "idle"
            /\ UNCHANGED handlerSaw
    /\ UNCHANGED << m_sourceImage, m_sourceItem, m_window, m_grabResult, grabs,
                    itemWindow, itemConnected, windowConnected >>
    /\ UNCHANGED paletteVars

(* ---------------------------------------------------------------------- *)
(* A run on the thread pool (line 140): the lambda calls                   *)
(* generatePalette(m_sourceImage), which takes the member by reference and *)
(* reads it at the guard of line 213 and in the loops of lines 221-230.    *)
(* ---------------------------------------------------------------------- *)
workerUnchanged ==
    UNCHANGED << m_sourceImage, m_sourceItem, m_window, m_grabResult,
                 m_futureImageData, m_imageData, grabs, mainPc, itemWindow,
                 itemConnected, windowConnected, handlerSaw, publishedCanceled >>

(* The pool starts a queued run; a run cancelled before it starts is       *)
(* dropped and only reports that it finished.                              *)
runStart(w) ==
    /\ watchers[w].phase = "queued"
    /\ IF watchers[w].canceled
       THEN /\ watchers' = [watchers EXCEPT ![w].phase = "skipped"]
            /\ eventQueue' = Append(eventQueue, << "finished", w >>)
       ELSE /\ watchers' = [watchers EXCEPT
                    ![w].phase = IF m_sourceImage = 0 THEN "read" ELSE "running",
                    ![w].reads = << m_sourceImage >>]
            /\ UNCHANGED eventQueue
    /\ workerUnchanged
    /\ UNCHANGED paletteVars

runReadPixels(w) ==
    /\ watchers[w].phase = "running"
    /\ watchers' = [watchers EXCEPT ![w].phase = "read",
                                    ![w].reads = Append(@, m_sourceImage)]
    /\ UNCHANGED eventQueue
    /\ workerUnchanged
    /\ UNCHANGED paletteVars

reportResult(w) ==
    /\ watchers[w].phase = "read"
    /\ watchers' = [watchers EXCEPT ![w].phase = "resultReady"]
    /\ UNCHANGED eventQueue
    /\ workerUnchanged
    /\ UNCHANGED paletteVars

reportFinished(w) ==
    /\ watchers[w].phase = "resultReady"
    /\ watchers' = [watchers EXCEPT ![w].phase = "finished"]
    /\ eventQueue' = Append(eventQueue, << "finished", w >>)
    /\ workerUnchanged
    /\ UNCHANGED paletteVars

InitUpdate ==
    /\ sourceImage = NullImage
    /\ PaletteInit
    /\ UpdateInit

NextUpdate ==
    \/ \E image \in ImageIds \cup { 0 } : setSourceImage(image)
    \/ \E source \in ItemIds \cup { 0 } : setSourceItem(source)
    \/ windowChanged
    \/ visibleChanged
    \/ \E g \in 1 .. MaxGrabs : grabCompleted(g)
    \/ \E image \in ImageIds \cup { 0 } : grabReady(image)
    \/ deferredDelete
    \/ finished
    \/ resultReturned
    \/ \E w \in 1 .. MaxRuns : runStart(w)
    \/ \E w \in 1 .. MaxRuns : runReadPixels(w)
    \/ \E w \in 1 .. MaxRuns : reportResult(w)
    \/ \E w \in 1 .. MaxRuns : reportFinished(w)

SpecUpdate == InitUpdate /\ [][NextUpdate]_vars

(* ---------------------------------------------------------------------- *)
(* Properties of generatePalette (checked under Spec)                      *)
(* ---------------------------------------------------------------------- *)
RECURSIVE SumRatios(_)
SumRatios(palette) ==
    IF palette = << >> THEN 0 ELSE Head(palette).ratio + SumRatios(Tail(palette))

RECURSIVE SumCounts(_)
SumCounts(clusters) ==
    IF clusters = << >> THEN 0
    ELSE Len(Head(clusters).colors) + SumCounts(Tail(clusters))

CountOf(colors, v) == Cardinality({ k \in 1 .. Len(colors) : colors[k] = v })

RECURSIVE CountInMembers(_, _, _)
CountInMembers(clusters, v, skipHead) ==
    IF clusters = << >> THEN 0
    ELSE CountOf(IF skipHead > 0 THEN Tail(Head(clusters).colors)
                                   ELSE Head(clusters).colors, v)
            + CountInMembers(Tail(clusters), v,
                             IF skipHead > 0 THEN skipHead - 1 ELSE 0)

Range(seq) == { seq[k] : k \in 1 .. Len(seq) }

HasEligiblePixel ==
    /\ ~sourceImage.isNull
    /\ \E k \in 1 .. Len(sourceImage.pixels) : sourceImage.pixels[k].a # 0

(* C1: for an image with at least one pixel of non-zero alpha, the ratios  *)
(* published in the palette sum to 1.0, that is, their numerators sum to   *)
(* the number of samples.                                                  *)
C1_RatioSum ==
    (pc = "done" /\ HasEligiblePixel) => SumRatios(m_palette) = Len(m_samples)

(* C2, as claimed: after the sampling pass and after every refinement      *)
(* pass the member lists together hold exactly Len(m_samples) entries.     *)
C2_Partition ==
    pc \in { "sampled", "refine" } => SumCounts(m_clusters) = Len(m_samples)

(* C2, amended: after the sampling pass the member lists hold every sample *)
(* exactly once and nothing else; after a refinement pass every cluster    *)
(* that was recentred starts with its own centroid as one extra member,    *)
(* and apart from these the member lists hold every sample exactly once,   *)
(* so the counts sum to the samples plus the recentred clusters.           *)
C2_PartitionReseeded ==
    /\ pc = "sampled" =>
          /\ SumCounts(m_clusters) = Len(m_samples)
          /\ \A v \in Range(m_samples) :
                CountInMembers(m_clusters, v, 0) = CountOf(m_samples, v)
    /\ pc = "refine" =>
          /\ reseeded <= Len(m_clusters)
          /\ \A i \in 1 .. reseeded :
                m_clusters[i].colors[1] = m_clusters[i].centroid
          /\ SumCounts(m_clusters) = Len(m_samples) + reseeded
          /\ \A v \in Range(m_samples) :
                CountInMembers(m_clusters, v, reseeded) = CountOf(m_samples, v)

(* A refinement pass that both recentred clusters and created a new one.   *)
C2_Witness ==
    /\ pc = "refine"
    /\ reseeded >= 2
    /\ Len(m_clusters) > reseeded

(* C3: the palette is ordered by non-increasing ratio.                     *)
C3_Ordering ==
    pc = "done" =>
        \A i \in 1 .. Len(m_palette) - 1 :
            m_palette[i].ratio >= m_palette[i + 1].ratio

(* C4: after the merge pass every two distinct surviving clusters are at   *)
(* least s_minimumSquareDistance apart, so a second merge pass would find  *)
(* no destination for any cluster.                                         *)
C4_Separated ==
    pc \in { "derive", "done" } =>
        /\ \A i, j \in 1 .. Len(m_clusters) :
              i # j => squareDistance(m_clusters[i].centroid, m_clusters[j].centroid)
                          >= s_minimumSquareDistance
        /\ \A i \in 1 .. Len(m_clusters) : FindDest(m_clusters, i, 1) = 0

(* The input is one of those the function gives the empty result for.      *)
EmptyInput == sourceImage.isNull \/ sourceImage.width = 0 \/ ~HasEligiblePixel

OpaquePixels == SelectSeq(sourceImage.pixels, LAMBDA px : px.a # 0)

(* C5: pixels with alpha 0 add nothing to m_samples or to a cluster, and a *)
(* null, zero-width or fully transparent image gives the empty result      *)
(* without reaching the refinement loop, the sort or the merge pass.       *)
C5_AlphaExclusion ==
    /\ Len(m_samples) <= Len(OpaquePixels)
    /\ pc \notin { "start" } /\ ~sourceImage.isNull /\ sourceImage.width # 0 =>
          m_samples = [k \in 1 .. Len(OpaquePixels) |-> OpaquePixels[k].rgb]
    /\ pc = "sampled" =>
          \A i \in 1 .. Len(m_clusters) : Range(m_clusters[i].colors) \subseteq OpaqueColors
    /\ EmptyInput =>
          /\ pc \in { "start", "sampled", "done" }
          /\ iteration = 0
          /\ lastMerge = NoMerge
          /\ m_clusters = << >>
          /\ m_samples = << >>
          /\ m_palette = << >>
          /\ m_dominant = InvalidColor
          /\ m_mostSaturated = InvalidColor
          /\ m_closestToBlack = InvalidColor
          /\ m_closestToWhite = InvalidColor

(* A finished run over an image of several pixels, all transparent.        *)
C5_Witness ==
    /\ pc = "done"
    /\ ~sourceImage.isNull
    /\ Len(sourceImage.pixels) >= 2
    /\ ~HasEligiblePixel

(* The clusters at the positions the merge pass did not record.            *)
Unmarked(clusters, items) ==
    SelectSeq([i \in 1 .. Len(clusters) |-> [pos |-> i, stat |-> clusters[i]]],
              LAMBDA e : e.pos \notin Range(items))

C6_StatePart ==
    /\ 1 \notin Range(itemsToDelete)
    /\ Cardinality(Range(itemsToDelete)) = Len(itemsToDelete)
    /\ pc # "crashed"
    /\ (pc \in { "derive", "done" } /\ m_samples # << >>) => m_clusters # << >>
    /\ (pc = "done" /\ m_samples # << >>) => Len(m_palette) >= 1

C6_ErasePart ==
    (pc = "merge" /\ pc' = "derive") =>
        LET kept == Unmarked(m_clusters, itemsToDelete)
        IN  m_clusters' = [k \in 1 .. Len(kept) |-> kept[k].stat]

C10_MixWeight ==
    lastMerge.merged =>
        /\ lastMerge.destRatio # 0
        /\ lastMerge.sourceRatio > 0
        /\ lastMerge.sourceRatio <= lastMerge.destRatio
        /\ \A ch \in 1 .. 3 :
              LET s == lastMerge.sourceCentroid[ch]
                  d == lastMerge.destCentroid[ch]
                  num == MixNumerator(lastMerge.sourceRatio, lastMerge.destRatio, s, d)
              IN  /\ num >= (IF s < d THEN s ELSE d) * lastMerge.destRatio
                  /\ num <= (IF s < d THEN d ELSE s) * lastMerge.destRatio

(* ---------------------------------------------------------------------- *)
(* Properties of update() and its runs (checked under SpecUpdate)          *)
(* ---------------------------------------------------------------------- *)
Executing(w) == watchers[w].phase \in { "running", "read" }

(* C7: the result of a run cancelled by a later update() is never assigned *)
(* to m_imageData, and the finished handler never finds m_futureImageData  *)
(* null or naming a watcher already scheduled for deletion.                *)
C7_NoStaleResult ==
    /\ ~publishedCanceled
    /\ handlerSaw \in { "none", "current" }

(* C8: at most one run dispatched by update() is executing at any moment.  *)
C8_SingleRun ==
    Cardinality({ w \in 1 .. MaxRuns : Executing(w) }) <= 1

(* C9: every read a run makes of its input sees the image m_sourceImage    *)
(* held when update() dispatched the run.                                  *)
C9_ImmutableInput ==
    \A w \in 1 .. MaxRuns :
        \A k \in 1 .. Len(watchers[w].reads) :
            watchers[w].reads[k] = watchers[w].dispatchImage

====
